---- MODULE Spec2Model ----
(***************************************************************************)
(* Model of axelrod.Tournament (src/axelrod/tournament.py): the controller *)
(* that plays repeated round robins serially or over a pool of worker      *)
(* processes fed by a work queue and drained through a done queue.         *)
(***************************************************************************)
EXTENDS Integers, Sequences, FiniteSets, TLC

(* ---------------------------------------------------------------------- *)
(* Bounds of the model                                                    *)
(* ---------------------------------------------------------------------- *)
MaxReps == 2        \* repetitions range over 0..MaxReps
MaxCpu == 2         \* multiprocessing.cpu_count() ranges over 1..MaxCpu
MaxPlayers == 2     \* len(players) ranges over 0..MaxPlayers

VARIABLES
    nplayers,              \* self.nplayers
    repetitions,           \* self.repetitions
    processes,             \* self._processes: None or <<p>>
    prebuilt_cache,        \* self.prebuilt_cache
    noise,                 \* self.noise (0 is zero noise)
    cpu_count,             \* multiprocessing.cpu_count()
    initial_cache,         \* the cache the tournament holds when play() is called
    deterministic_cache,   \* self.deterministic_cache in the controller
    parallel_repetitions,  \* self._parallel_repetitions
    outcome,               \* self._outcome
    pc,                    \* position of the controller inside play()
    build_required,        \* value of _build_cache_required() taken by play()
    workers,               \* local `workers` of _run_parallel_repetitions
    repetition,            \* loop variable of the controller's current loop
    stops,                 \* local `stops` of _process_done_queue
    work_queue,            \* multiprocessing.Queue: items not yet dequeued
    done_queue,            \* multiprocessing.Queue: items readable by get()
    done_buffer,           \* per worker: items put but not yet in the pipe
    wpc,                   \* position of each worker process
    wcache,                \* each worker process's copy of the cache
    calls,                 \* history: calls of _play_round_robin
    enqueued,              \* history: everything put on work_queue
    received,              \* history: how many outputs and STOPs reached done_queue
    processed,             \* history: work items dequeued by workers
    lookups,               \* history: how many times a match read the cache
    played,                \* history: the matches of the latest round robin
    clones                 \* history: every instance made by clone()

config == <<nplayers, repetitions, processes, prebuilt_cache, noise, cpu_count,
            initial_cache>>
control == <<pc, build_required, workers, repetition, stops>>
queues == <<work_queue, done_queue, done_buffer>>
procs == <<wpc, wcache>>
rounds == <<calls, lookups, played, clones>>
history == <<rounds, enqueued, received, processed>>
vars == <<config, deterministic_cache, parallel_repetitions, outcome,
          control, queues, procs, history>>

(* ---------------------------------------------------------------------- *)
(* Values                                                                 *)
(* ---------------------------------------------------------------------- *)
None == <<>>
Some(p) == <<p>>
Procs == 1..MaxCpu

STOP == [tag |-> "STOP", rep |-> -1]
WorkItem(r) == [tag |-> "rep", rep |-> r]

EmptyCache == <<>>
Trace(key) == <<"trace", key[1], key[2]>>
PrebuiltCache == (<<0, 0>> :> Trace(<<0, 0>>))

RepId(src, r) == [src |-> src, rep |-> r]

\* players[i], and the instance the k-th match of round robin `id` gets from
\* players[i].clone()
Player(i) == [kind |-> "player", index |-> i, made |-> <<>>]
Clone(i, id, k) == [kind |-> "clone", index |-> i, made |-> <<id, k>>]

(* ---------------------------------------------------------------------- *)
(* Collaborators outside src/: Match, payoff_matrix, cooperation_matrix   *)
(* ---------------------------------------------------------------------- *)
MatchPlay(key, cache, cache_mutable, nz) ==
    IF nz # 0
    THEN [result |-> Trace(key), cache |-> cache, lookup |-> 0]
    ELSE IF key \in DOMAIN cache
         THEN [result |-> cache[key], cache |-> cache, lookup |-> 1]
         ELSE [result |-> Trace(key),
               cache |-> IF cache_mutable
                         THEN (key :> Trace(key)) @@ cache
                         ELSE cache,
               lookup |-> 1]

payoff_matrix(interactions, id) ==
    [kind |-> "payoff", id |-> id, pairs |-> DOMAIN interactions]

cooperation_matrix(interactions, id) ==
    [kind |-> "cooperation", id |-> id, pairs |-> DOMAIN interactions]

(* ---------------------------------------------------------------------- *)
(* Pure functions of Tournament                                           *)
(* ---------------------------------------------------------------------- *)
BuildCacheRequiredBoth(nz, cache, prebuilt) ==
    (nz = 0) /\ (Cardinality(DOMAIN cache) = 0 /\ ~prebuilt)

BuildCacheRequiredEmptyOnly(nz, cache, prebuilt) ==
    (nz = 0) /\ (Cardinality(DOMAIN cache) = 0)

BuildCacheRequiredAnyNoise(nz, cache, prebuilt) ==
    Cardinality(DOMAIN cache) = 0 \/ ~prebuilt

BuildCacheRequiredIgnoresNoise(nz, cache, prebuilt) ==
    Cardinality(DOMAIN cache) = 0 /\ ~prebuilt

BuildCacheRequired(nz, cache, prebuilt) ==
    (nz = 0) /\ (Cardinality(DOMAIN cache) = 0 \/ ~prebuilt)

NWorkersFromOne(p, cpus) ==
    IF 1 <= p /\ p <= cpus THEN p ELSE cpus

NWorkers(p, cpus) ==
    IF 2 <= p /\ p <= cpus THEN p ELSE cpus

Player2Alias(i, j, id, k) == Player(j)

\* lines 168-171: the second participant of the k-th match
Player2(i, j, id, k) == IF i = j THEN Clone(i, id, k) ELSE Player(j)

\* the round robin with the inner loop starting after player1_index
RECURSIVE RoundRobinNoSelfPlay(_, _, _, _, _, _)
RoundRobinNoSelfPlay(i, j, n, st, cache_mutable, nz) ==
    IF i >= n THEN st
    ELSE IF j >= n THEN RoundRobinNoSelfPlay(i + 1, i + 2, n, st, cache_mutable, nz)
    ELSE IF j = i THEN RoundRobinNoSelfPlay(i, i + 1, n, st, cache_mutable, nz)
    ELSE LET m == MatchPlay(<<i, j>>, st.cache, cache_mutable, nz)
             k == Len(st.matches) + 1
         IN RoundRobinNoSelfPlay(i, j + 1, n,
                [st EXCEPT
                   !.interactions = (<<i, j>> :> m.result) @@ st.interactions,
                   !.cache = m.cache,
                   !.lookups = st.lookups + m.lookup,
                   !.matches = Append(st.matches,
                                [key |-> <<i, j>>, mutable |-> cache_mutable,
                                 player1 |-> Player(i),
                                 player2 |-> Player2(i, j, st.id, k)])],
                cache_mutable, nz)

RECURSIVE RoundRobinFrom(_, _, _, _, _, _)
RoundRobinFrom(i, j, n, st, cache_mutable, nz) ==
    IF i >= n THEN st
    ELSE IF j >= n THEN RoundRobinFrom(i + 1, i + 1, n, st, cache_mutable, nz)
    ELSE LET m == MatchPlay(<<i, j>>, st.cache, cache_mutable, nz)
             k == Len(st.matches) + 1
         IN RoundRobinFrom(i, j + 1, n,
                [st EXCEPT
                   !.interactions = (<<i, j>> :> m.result) @@ st.interactions,
                   !.cache = m.cache,
                   !.lookups = st.lookups + m.lookup,
                   !.matches = Append(st.matches,
                                [key |-> <<i, j>>, mutable |-> cache_mutable,
                                 player1 |-> Player(i),
                                 player2 |-> Player2(i, j, st.id, k)])],
                cache_mutable, nz)

PlayRoundRobin(n, cache, cache_mutable, nz, id) ==
    LET st == RoundRobinFrom(0, 0, n,
                  [interactions |-> <<>>, cache |-> cache, matches |-> <<>>,
                   lookups |-> 0, id |-> id],
                  cache_mutable, nz)
    IN [output |-> [tag |-> "output",
                    payoff |-> payoff_matrix(st.interactions, id),
                    cooperation |-> cooperation_matrix(st.interactions, id)],
        cache |-> st.cache,
        matches |-> st.matches,
        lookups |-> st.lookups]

\* the instances clone() made during the matches of one round robin
ClonesOf(matches) ==
    LET made == SelectSeq(matches, LAMBDA m : m.player2.kind = "clone")
    IN [k \in 1..Len(made) |-> made[k].player2]

Call(by, cache_mutable, id) == [by |-> by, mutable |-> cache_mutable, id |-> id]

(* ---------------------------------------------------------------------- *)
(* Initial state: a constructed Tournament, possibly handed a cache        *)
(* ---------------------------------------------------------------------- *)
ProcessesValues(cpus) ==
    {None} \cup {Some(p) : p \in (0..MaxCpu) \cup {cpus + 5}}

\* the constructed tournament, for a set of repetition counts
InitFrom(Repetitions) ==
    /\ nplayers \in 0..MaxPlayers
    /\ repetitions \in Repetitions
    /\ cpu_count \in 1..MaxCpu
    /\ processes \in ProcessesValues(cpu_count)
    /\ prebuilt_cache \in BOOLEAN
    /\ noise \in {0, 1}
    /\ deterministic_cache \in {EmptyCache, PrebuiltCache}
    /\ initial_cache = deterministic_cache
    /\ parallel_repetitions = repetitions
    /\ outcome = [payoff |-> <<>>, cooperation |-> <<>>]
    /\ pc = "play"
    /\ build_required = FALSE
    /\ workers = 0
    /\ repetition = 0
    /\ stops = 0
    /\ work_queue = <<>>
    /\ done_queue = <<>>
    /\ done_buffer = [w \in Procs |-> <<>>]
    /\ wpc = [w \in Procs |-> "idle"]
    /\ wcache = [w \in Procs |-> EmptyCache]
    /\ calls = <<>>
    /\ enqueued = <<>>
    /\ received = [outputs |-> 0, stops |-> 0]
    /\ processed = <<>>
    /\ lookups = 0
    /\ played = <<>>
    /\ clones = <<>>

Init == InitFrom(0..MaxReps)

(* ---------------------------------------------------------------------- *)
(* Controller                                                             *)
(* ---------------------------------------------------------------------- *)
\* play(), lines 72-77: choice of the path
Play ==
    /\ pc = "play"
    /\ IF processes = None
       THEN /\ pc' = "serial"
            /\ build_required' = build_required
       ELSE /\ build_required' = BuildCacheRequired(noise, deterministic_cache,
                                                    prebuilt_cache)
            /\ pc' = IF build_required' THEN "build_cache" ELSE "parallel"
    /\ repetition' = 0
    /\ UNCHANGED <<config, deterministic_cache, parallel_repetitions, outcome,
                   workers, stops, queues, procs, history>>

\* _run_single_repetition in the controller: one round robin with the
\* default cache_mutable=True, both appends
RunSingleRepetition(id) ==
    LET rr == PlayRoundRobin(nplayers, deterministic_cache, TRUE, noise, id)
    IN /\ deterministic_cache' = rr.cache
       /\ outcome' = [payoff |-> Append(outcome.payoff, rr.output.payoff),
                      cooperation |-> Append(outcome.cooperation,
                                             rr.output.cooperation)]
       /\ calls' = Append(calls, Call("controller", TRUE, id))
       /\ lookups' = lookups + rr.lookups
       /\ played' = rr.matches
       /\ clones' = clones \o ClonesOf(rr.matches)

SerialRepetitionOneMore ==
    /\ pc = "serial"
    /\ repetition <= repetitions
    /\ RunSingleRepetition(RepId("serial", repetition))
    /\ repetition' = repetition + 1
    /\ UNCHANGED <<config, parallel_repetitions, pc, build_required, workers,
                   stops, queues, procs, enqueued, received, processed>>

\* _run_serial_repetitions: one iteration of the loop
SerialRepetition ==
    /\ pc = "serial"
    /\ repetition < repetitions
    /\ RunSingleRepetition(RepId("serial", repetition))
    /\ repetition' = repetition + 1
    /\ UNCHANGED <<config, parallel_repetitions, pc, build_required, workers,
                   stops, queues, procs, enqueued, received, processed>>

SerialDone ==
    /\ pc = "serial"
    /\ repetition >= repetitions
    /\ pc' = "result"
    /\ UNCHANGED <<config, deterministic_cache, parallel_repetitions, outcome,
                   build_required, workers, repetition, stops, queues, procs,
                   history>>

\* _build_cache
BuildCache ==
    /\ pc = "build_cache"
    /\ RunSingleRepetition(RepId("prime", 0))
    /\ parallel_repetitions' = parallel_repetitions - 1
    /\ pc' = "parallel"
    /\ UNCHANGED <<config, build_required, workers, repetition, stops, queues,
                   procs, enqueued, received, processed>>

\* _run_parallel_repetitions, lines 113-115
RunParallel ==
    /\ pc = "parallel"
    /\ workers' = NWorkers(processes[1], cpu_count)
    /\ repetition' = 0
    /\ pc' = "enqueue"
    /\ UNCHANGED <<config, deterministic_cache, parallel_repetitions, outcome,
                   build_required, stops, queues, procs, history>>

\* lines 117-118: one iteration of the enqueue loop
EnqueueRepetition ==
    /\ pc = "enqueue"
    /\ repetition < parallel_repetitions
    /\ work_queue' = Append(work_queue, WorkItem(repetition))
    /\ enqueued' = Append(enqueued, WorkItem(repetition))
    /\ repetition' = repetition + 1
    /\ UNCHANGED <<config, deterministic_cache, parallel_repetitions, outcome,
                   pc, build_required, workers, stops, done_queue, done_buffer,
                   procs, rounds, received, processed>>

EnqueueDone ==
    /\ pc = "enqueue"
    /\ repetition >= parallel_repetitions
    /\ repetition' = 0
    /\ pc' = "start_workers"
    /\ UNCHANGED <<config, deterministic_cache, parallel_repetitions, outcome,
                   build_required, workers, stops, queues, procs, history>>

SnapshotFresh(cache) == EmptyCache

\* the copy of the tournament a started process works on
Snapshot(cache) == cache

StartWorkerOneStop ==
    /\ pc = "start_workers"
    /\ repetition < workers
    /\ work_queue' = IF repetition = 0 THEN Append(work_queue, STOP) ELSE work_queue
    /\ enqueued' = IF repetition = 0 THEN Append(enqueued, STOP) ELSE enqueued
    /\ wpc' = [wpc EXCEPT ![repetition + 1] = "get"]
    /\ wcache' = [wcache EXCEPT ![repetition + 1] = Snapshot(deterministic_cache)]
    /\ repetition' = repetition + 1
    /\ UNCHANGED <<config, deterministic_cache, parallel_repetitions, outcome,
                   pc, build_required, workers, stops, done_queue, done_buffer,
                   rounds, received, processed>>

\* _start_workers: one iteration of the loop (put 'STOP', start the process)
StartWorker ==
    /\ pc = "start_workers"
    /\ repetition < workers
    /\ work_queue' = Append(work_queue, STOP)
    /\ enqueued' = Append(enqueued, STOP)
    /\ wpc' = [wpc EXCEPT ![repetition + 1] = "get"]
    /\ wcache' = [wcache EXCEPT ![repetition + 1] = Snapshot(deterministic_cache)]
    /\ repetition' = repetition + 1
    /\ UNCHANGED <<config, deterministic_cache, parallel_repetitions, outcome,
                   pc, build_required, workers, stops, done_queue, done_buffer,
                   rounds, received, processed>>

\* _start_workers returns; _process_done_queue sets stops = 0
StartWorkersDone ==
    /\ pc = "start_workers"
    /\ repetition >= workers
    /\ stops' = 0
    /\ pc' = "drain"
    /\ UNCHANGED <<config, deterministic_cache, parallel_repetitions, outcome,
                   build_required, workers, repetition, queues, procs, history>>

ProcessDoneQueuePayoffOnly ==
    /\ pc = "drain"
    /\ stops < workers
    /\ done_queue # <<>>
    /\ LET output == Head(done_queue)
       IN /\ done_queue' = Tail(done_queue)
          /\ IF output = STOP
             THEN /\ stops' = stops + 1
                  /\ outcome' = outcome
             ELSE /\ stops' = stops
                  /\ outcome' = [outcome EXCEPT
                                    !.payoff = Append(@, output.payoff)]
    /\ UNCHANGED <<config, deterministic_cache, parallel_repetitions, pc,
                   build_required, workers, repetition, work_queue,
                   done_buffer, procs, history>>

ProcessDoneQueueIgnoreAfterStop ==
    /\ pc = "drain"
    /\ stops < workers
    /\ done_queue # <<>>
    /\ LET output == Head(done_queue)
       IN /\ done_queue' = Tail(done_queue)
          /\ IF output = STOP
             THEN /\ stops' = stops + 1
                  /\ outcome' = outcome
             ELSE /\ stops' = stops
                  /\ outcome' = IF stops > 0 THEN outcome
                                ELSE [payoff |-> Append(outcome.payoff, output.payoff),
                                      cooperation |-> Append(outcome.cooperation,
                                                             output.cooperation)]
    /\ UNCHANGED <<config, deterministic_cache, parallel_repetitions, pc,
                   build_required, workers, repetition, work_queue,
                   done_buffer, procs, history>>

\* _process_done_queue: one iteration of the loop
ProcessDoneQueue ==
    /\ pc = "drain"
    /\ stops < workers
    /\ done_queue # <<>>
    /\ LET output == Head(done_queue)
       IN /\ done_queue' = Tail(done_queue)
          /\ IF output = STOP
             THEN /\ stops' = stops + 1
                  /\ outcome' = outcome
             ELSE /\ stops' = stops
                  /\ outcome' = [payoff |-> Append(outcome.payoff, output.payoff),
                                 cooperation |-> Append(outcome.cooperation,
                                                        output.cooperation)]
    /\ UNCHANGED <<config, deterministic_cache, parallel_repetitions, pc,
                   build_required, workers, repetition, work_queue,
                   done_buffer, procs, history>>

ProcessDoneQueueReturnEarly ==
    /\ pc = "drain"
    /\ stops >= workers - 1
    /\ pc' = "result"
    /\ UNCHANGED <<config, deterministic_cache, parallel_repetitions, outcome,
                   build_required, workers, repetition, stops, queues, procs,
                   history>>

ProcessDoneQueueReturnNever ==
    /\ pc = "drain"
    /\ stops > workers
    /\ pc' = "result"
    /\ UNCHANGED <<config, deterministic_cache, parallel_repetitions, outcome,
                   build_required, workers, repetition, stops, queues, procs,
                   history>>

ProcessDoneQueueReturnOnEmpty ==
    /\ pc = "drain"
    /\ stops >= workers \/ done_queue = <<>>
    /\ pc' = "result"
    /\ UNCHANGED <<config, deterministic_cache, parallel_repetitions, outcome,
                   build_required, workers, repetition, stops, queues, procs,
                   history>>

ProcessDoneQueueReturn ==
    /\ pc = "drain"
    /\ stops >= workers
    /\ pc' = "result"
    /\ UNCHANGED <<config, deterministic_cache, parallel_repetitions, outcome,
                   build_required, workers, repetition, stops, queues, procs,
                   history>>

\* play(), lines 79-85
Return ==
    /\ pc = "result"
    /\ pc' = "done"
    /\ UNCHANGED <<config, deterministic_cache, parallel_repetitions, outcome,
                   build_required, workers, repetition, stops, queues, procs,
                   history>>

(* ---------------------------------------------------------------------- *)
(* Worker processes                                                       *)
(* ---------------------------------------------------------------------- *)
WorkerCacheMutableDefault == TRUE

\* _worker, line 157: the cache_mutable argument
WorkerCacheMutable == FALSE

\* _worker: one work_queue.get and what follows it up to the next get:
\* on 'STOP' leave the loop and put 'STOP'; otherwise play one round robin
\* and put its output
Worker(w) ==
    /\ wpc[w] = "get"
    /\ work_queue # <<>>
    /\ work_queue' = Tail(work_queue)
    /\ LET item == Head(work_queue)
           id == RepId("worker", item.rep)
           rr == PlayRoundRobin(nplayers, wcache[w], WorkerCacheMutable, noise, id)
       IN IF item = STOP
          THEN /\ done_buffer' = [done_buffer EXCEPT ![w] = Append(@, STOP)]
               /\ wpc' = [wpc EXCEPT ![w] = "exited"]
               /\ UNCHANGED <<wcache, rounds, processed>>
          ELSE /\ wcache' = [wcache EXCEPT ![w] = rr.cache]
               /\ done_buffer' = [done_buffer EXCEPT ![w] = Append(@, rr.output)]
               /\ calls' = Append(calls, Call("worker", WorkerCacheMutable, id))
               /\ lookups' = lookups + rr.lookups
               /\ played' = rr.matches
               /\ clones' = clones \o ClonesOf(rr.matches)
               /\ processed' = Append(processed, item)
               /\ wpc' = wpc
    /\ UNCHANGED <<config, deterministic_cache, parallel_repetitions, outcome,
                   control, done_queue, enqueued, received>>

FeedNewestFirst(w) ==
    /\ done_buffer[w] # <<>>
    /\ LET last == done_buffer[w][Len(done_buffer[w])]
       IN /\ done_queue' = Append(done_queue, last)
          /\ received' = IF last = STOP
                         THEN [received EXCEPT !.stops = @ + 1]
                         ELSE [received EXCEPT !.outputs = @ + 1]
    /\ done_buffer' = [done_buffer EXCEPT ![w] = SubSeq(@, 1, Len(@) - 1)]
    /\ UNCHANGED <<config, deterministic_cache, parallel_repetitions, outcome,
                   control, work_queue, procs, rounds, enqueued, processed>>

\* done_queue: the putting process's feeder writes its oldest item to the pipe
Feed(w) ==
    /\ done_buffer[w] # <<>>
    /\ done_queue' = Append(done_queue, Head(done_buffer[w]))
    /\ received' = IF Head(done_buffer[w]) = STOP
                   THEN [received EXCEPT !.stops = @ + 1]
                   ELSE [received EXCEPT !.outputs = @ + 1]
    /\ done_buffer' = [done_buffer EXCEPT ![w] = Tail(@)]
    /\ UNCHANGED <<config, deterministic_cache, parallel_repetitions, outcome,
                   control, work_queue, procs, rounds, enqueued, processed>>

ControllerStep ==
    \/ Play
    \/ SerialRepetition
    \/ SerialDone
    \/ BuildCache
    \/ RunParallel
    \/ EnqueueRepetition
    \/ EnqueueDone
    \/ StartWorker
    \/ StartWorkersDone
    \/ ProcessDoneQueue
    \/ ProcessDoneQueueReturn
    \/ Return

WorkerStep(w) == Worker(w) \/ Feed(w)

Next == ControllerStep \/ \E w \in Procs : WorkerStep(w)

Spec == Init /\ [][Next]_vars

\* Termination of the queue protocol is decided by the repetition count, the
\* worker count and whether priming runs; it is checked for one player, an
\* empty cache and no prebuilt flag (priming runs iff noise is zero).
InitFair ==
    /\ Init
    /\ nplayers = 1
    /\ deterministic_cache = EmptyCache
    /\ prebuilt_cache = FALSE

\* the scheduler never stops every process for ever
FairSpec == InitFair /\ [][Next]_vars /\ WF_vars(Next)

(* ---------------------------------------------------------------------- *)
(* Vocabulary of the properties                                           *)
(* ---------------------------------------------------------------------- *)
Parallel == processes # None
Returned == pc \in {"result", "done"}
Started(w) == wpc[w] # "idle"
AnyStarted == \E w \in Procs : Started(w)
WorkItemsOf(q) == SelectSeq(q, LAMBDA x : x # STOP)
StopsOf(q) == SelectSeq(q, LAMBDA x : x = STOP)
FromWorker(m) == m.id.src = "worker"
FromPrime(m) == m.id.src = "prime"
PrimeAppended == \E k \in DOMAIN outcome.payoff : FromPrime(outcome.payoff[k])
MutableCalls == {k \in DOMAIN calls : calls[k].mutable}
WorkerCalls == {k \in DOMAIN calls : calls[k].by = "worker"}

(* ---------------------------------------------------------------------- *)
(* C1: in the parallel path with R >= 0 remaining repetitions and W >= 1   *)
(* workers, when _process_done_queue has returned the done queue has       *)
(* received exactly R outputs and exactly W 'STOP's, the controller has    *)
(* appended exactly R worker outputs, and the workers dequeued every work  *)
(* item exactly once.                                                      *)
(* ---------------------------------------------------------------------- *)
C1_ExactlyRResultsAndWStops ==
    (Parallel /\ Returned /\ parallel_repetitions >= 0) =>
        /\ workers >= 1
        /\ received.outputs = parallel_repetitions
        /\ received.stops = workers
        /\ Len(SelectSeq(outcome.payoff, FromWorker)) = parallel_repetitions
        /\ Len(SelectSeq(outcome.cooperation, FromWorker)) = parallel_repetitions
        /\ {outcome.payoff[k].id.rep : k \in {i \in DOMAIN outcome.payoff :
                FromWorker(outcome.payoff[i])}} = 0..(parallel_repetitions - 1)
        /\ processed = [k \in 1..parallel_repetitions |-> WorkItem(k - 1)]

\* two workers shared two repetitions and the later output overtook the earlier
C1_Witness ==
    /\ Parallel /\ pc = "done"
    /\ parallel_repetitions = 2 /\ workers = 2
    /\ \E k \in 1..(Len(outcome.payoff) - 1) :
          /\ FromWorker(outcome.payoff[k]) /\ FromWorker(outcome.payoff[k + 1])
          /\ outcome.payoff[k].id.rep > outcome.payoff[k + 1].id.rep

(* ---------------------------------------------------------------------- *)
(* C2: when play() returns, the payoff and the cooperation collection      *)
(* each hold exactly `repetitions` entries, in every configuration.        *)
(* ---------------------------------------------------------------------- *)
C2_OutcomeCountIsRepetitions ==
    pc = "done" =>
        /\ Len(outcome.payoff) = repetitions
        /\ Len(outcome.cooperation) = repetitions

(* ---------------------------------------------------------------------- *)
(* C3: in the parallel path with priming required, exactly one round       *)
(* robin is run in the controller with the cache mutable and appended,     *)
(* the remaining counter goes from R to R-1, exactly R-1 work items are    *)
(* enqueued, and the priming outcome is one of the R final outcomes.       *)
(* ---------------------------------------------------------------------- *)
C3_PrimingCountsTowardTotal ==
    (Parallel /\ build_required) =>
        /\ pc # "build_cache" =>
              /\ Cardinality({k \in DOMAIN calls : calls[k].by = "controller"}) = 1
              /\ calls[1] = Call("controller", TRUE, RepId("prime", 0))
              /\ PrimeAppended
              /\ parallel_repetitions = repetitions - 1
        /\ pc \in {"start_workers", "drain", "result", "done"} =>
              Len(WorkItemsOf(enqueued)) = repetitions - 1
        /\ pc = "done" =>
              /\ Len(outcome.payoff) = repetitions
              /\ Len(SelectSeq(outcome.payoff, FromPrime)) = 1

(* ---------------------------------------------------------------------- *)
(* C4: the value play() obtains from _build_cache_required() is true iff   *)
(* noise is zero and (the cache is empty or the prebuilt flag is false);   *)
(* flagged prebuilt with an empty cache requires priming, flagged prebuilt *)
(* with a non-empty cache does not.  (The cache is still the one the call  *)
(* saw while pc is "build_cache", or "parallel" without priming.)          *)
(* ---------------------------------------------------------------------- *)
C4_BuildCacheRequiredIff ==
    (Parallel /\ (pc = "build_cache" \/ (pc = "parallel" /\ ~build_required))) =>
        /\ build_required <=>
              (noise = 0 /\ (DOMAIN deterministic_cache = {} \/ ~prebuilt_cache))
        /\ (noise = 0 /\ prebuilt_cache /\ deterministic_cache = EmptyCache)
              => build_required
        /\ (noise = 0 /\ prebuilt_cache /\ deterministic_cache # EmptyCache)
              => ~build_required

\* flagged prebuilt, but the cache is empty: priming is required
C4_Witness ==
    /\ Parallel /\ pc = "build_cache" /\ build_required
    /\ prebuilt_cache /\ deterministic_cache = EmptyCache /\ noise = 0

(* ---------------------------------------------------------------------- *)
(* C5 as stated: in a zero-noise run, once priming has completed,          *)
(* _build_cache_required() is false in every later state.                  *)
(* ---------------------------------------------------------------------- *)
Primed == Parallel /\ build_required /\ pc \notin {"play", "build_cache"}

C5_NeverRequiredAfterPriming ==
    (Primed /\ noise = 0) =>
        ~BuildCacheRequired(noise, deterministic_cache, prebuilt_cache)

(* ---------------------------------------------------------------------- *)
(* C5 amended: in a zero-noise run, once priming has completed,            *)
(* _build_cache_required() keeps one value in every later state: true      *)
(* when the prebuilt flag is false, false when the flag is true and the    *)
(* cache is not empty.                                                     *)
(* ---------------------------------------------------------------------- *)
C5_RequiredAfterPrimingFollowsFlag ==
    /\ [](  (Primed /\ noise = 0) =>
              /\ ~prebuilt_cache =>
                    BuildCacheRequired(noise, deterministic_cache, prebuilt_cache)
              /\ (prebuilt_cache /\ deterministic_cache # EmptyCache) =>
                    ~BuildCacheRequired(noise, deterministic_cache, prebuilt_cache))
    /\ [][ (Primed /\ noise = 0) =>
              (BuildCacheRequired(noise, deterministic_cache, prebuilt_cache)'
                 = BuildCacheRequired(noise, deterministic_cache, prebuilt_cache))
         ]_vars

\* priming filled an empty cache of a tournament flagged prebuilt
C5_Witness ==
    /\ Primed /\ noise = 0 /\ pc = "done"
    /\ prebuilt_cache /\ deterministic_cache # EmptyCache
    /\ ~BuildCacheRequired(noise, deterministic_cache, prebuilt_cache)

(* ---------------------------------------------------------------------- *)
(* C6: with P = cpu_count and p the requested processes, the worker count  *)
(* W is p when 2 <= p <= P and P otherwise (p <= 0, p = 1, p > P, P + 5),  *)
(* and 1 <= W <= P.                                                        *)
(* ---------------------------------------------------------------------- *)
WorkersChosen == Parallel /\ pc \notin {"play", "build_cache", "parallel"}

C6_WorkerCount ==
    WorkersChosen =>
        LET p == processes[1]
        IN /\ (2 <= p /\ p <= cpu_count) => workers = p
           /\ p <= 0 => workers = cpu_count
           /\ p = 1 => workers = cpu_count
           /\ p > cpu_count => workers = cpu_count
           /\ p = cpu_count + 5 => workers = cpu_count
           /\ 1 <= workers /\ workers <= cpu_count

\* one process requested on a machine with several: all of them are used
C6_Witness ==
    /\ WorkersChosen /\ processes = Some(1)
    /\ cpu_count >= 2 /\ workers = cpu_count

(* ---------------------------------------------------------------------- *)
(* C7: under fair scheduling every run ends with play() returned and       *)
(* every started worker exited, for every R and W (also W > R, R = 0).     *)
(* ---------------------------------------------------------------------- *)
C7_Terminates ==
    <>(/\ pc = "done"
       /\ \A w \in Procs : wpc[w] \in {"idle", "exited"}
       /\ Parallel => \A v \in 1..workers : wpc[v] = "exited")

\* more workers than work items, and all of them have exited
C7_Witness ==
    /\ Parallel /\ pc = "done"
    /\ parallel_repetitions >= 0 /\ workers > parallel_repetitions
    /\ \A w \in 1..workers : wpc[w] = "exited"
    /\ processed = [k \in 1..parallel_repetitions |-> WorkItem(k - 1)]

(* ---------------------------------------------------------------------- *)
(* C8: when priming is required, nothing is enqueued and no worker is      *)
(* started before the priming outcome has been appended, and the cache of  *)
(* every started worker holds every entry of the controller's cache.       *)
(* ---------------------------------------------------------------------- *)
C8_PrimingBeforeParallel ==
    /\ (Parallel /\ pc # "play" /\ build_required /\ ~PrimeAppended) =>
          /\ enqueued = <<>> /\ work_queue = <<>>
          /\ \A w \in Procs : ~Started(w)
    /\ \A w \in Procs : Started(w) =>
          /\ build_required => PrimeAppended
          /\ \A key \in DOMAIN deterministic_cache :
                key \in DOMAIN wcache[w] /\ wcache[w][key] = deterministic_cache[key]

\* a started worker holds an entry that only priming can have written
C8_Witness ==
    \E w \in Procs :
        /\ Started(w) /\ build_required /\ PrimeAppended
        /\ <<0, 1>> \in DOMAIN wcache[w]

(* ---------------------------------------------------------------------- *)
(* C9: every round robin a worker runs has cache_mutable = False; from     *)
(* the start of the first worker on the controller's cache never changes;  *)
(* a step that changes one worker's cache changes no other started         *)
(* worker's cache and not the controller's.                                *)
(* ---------------------------------------------------------------------- *)
C9_CacheReadOnlyInParallelPhase ==
    [][ /\ \A k \in DOMAIN calls' : calls'[k].by = "worker" => ~calls'[k].mutable
        /\ AnyStarted => deterministic_cache' = deterministic_cache
        /\ \A w \in Procs : (Started(w) /\ wcache'[w] # wcache[w]) =>
              /\ deterministic_cache' = deterministic_cache
              /\ \A v \in Procs \ {w} : Started(v) => wcache'[v] = wcache[v]
      ]_vars

\* a worker ran a repetition that missed the cache
C9_Witness ==
    \E w \in Procs :
        /\ Started(w) /\ WorkerCalls # {} /\ noise = 0
        /\ nplayers = 2 /\ <<0, 1>> \notin DOMAIN wcache[w]
        /\ done_buffer[w] # <<>> /\ Head(done_buffer[w]) # STOP

(* ---------------------------------------------------------------------- *)
(* C10 as stated: in a whole run, serial or parallel, at most one round    *)
(* robin gets the cache as mutable, and only when noise is zero.           *)
(* ---------------------------------------------------------------------- *)
C10_AtMostOneMutableRepetition ==
    /\ Cardinality(MutableCalls) <= 1
    /\ MutableCalls # {} => noise = 0

(* ---------------------------------------------------------------------- *)
(* C10 amended: in parallel mode at most one round robin gets the cache    *)
(* as mutable, it is the priming one and noise is then zero, every worker  *)
(* round robin gets it as not mutable; in serial mode every round robin    *)
(* gets the cache as mutable, whatever the noise.                          *)
(* ---------------------------------------------------------------------- *)
C10_MutableOnlyWhenPrimingOrSerial ==
    /\ Parallel =>
          /\ Cardinality(MutableCalls) <= 1
          /\ \A k \in MutableCalls :
                calls[k].id = RepId("prime", 0) /\ noise = 0 /\ k = 1
          /\ \A k \in WorkerCalls : ~calls[k].mutable
    /\ ~Parallel =>
          /\ \A k \in DOMAIN calls : calls[k].mutable /\ calls[k].by = "controller"
          /\ pc = "done" => Len(calls) = repetitions

\* a primed parallel run in which a worker ran a repetition as well
C10_Witness ==
    /\ Parallel /\ pc = "done"
    /\ Cardinality(MutableCalls) = 1 /\ WorkerCalls # {}

(* ---------------------------------------------------------------------- *)
(* C11: with nonzero noise, serial or parallel, _build_cache_required()    *)
(* is false in every state, no priming repetition is run (in parallel      *)
(* mode all R repetitions are dispatched), no match reads the cache, and   *)
(* the controller's cache and every worker's copy stay equal to the cache  *)
(* play() started with.                                                    *)
(* ---------------------------------------------------------------------- *)
C11_NoisyRunLeavesCacheAlone ==
    noise # 0 =>
        /\ ~BuildCacheRequired(noise, deterministic_cache, prebuilt_cache)
        /\ ~build_required /\ pc # "build_cache"
        /\ \A k \in DOMAIN calls : calls[k].id.src # "prime"
        /\ parallel_repetitions = repetitions
        /\ (Parallel /\ pc \in {"start_workers", "drain", "result", "done"}) =>
              WorkItemsOf(enqueued) = [k \in 1..repetitions |-> WorkItem(k - 1)]
        /\ (pc = "done") => Len(calls) = repetitions
        /\ lookups = 0
        /\ deterministic_cache = initial_cache
        /\ \A w \in Procs : Started(w) => wcache[w] = initial_cache

\* a noisy parallel run over a supplied cache, finished after two repetitions
\* of two players
C11_Witness ==
    /\ noise # 0 /\ Parallel /\ pc = "done"
    /\ prebuilt_cache /\ initial_cache = PrebuiltCache
    /\ nplayers = 2 /\ Len(calls) = 2 /\ Len(played) = 3

(* ---------------------------------------------------------------------- *)
(* C12: with N players, one _play_round_robin plays exactly N(N+1)/2       *)
(* matches, one for each pair (i, j) with 0 <= i <= j < N and each pair    *)
(* once, and the interaction set it scores has exactly those pairs as      *)
(* keys.                                                                  *)
(* ---------------------------------------------------------------------- *)
PairKeys(n) == {<<i, j>> \in (0..(n - 1)) \X (0..(n - 1)) : i <= j}
OutputsInFlight ==
    {done_queue[k] : k \in DOMAIN done_queue}
        \cup UNION {{done_buffer[w][k] : k \in DOMAIN done_buffer[w]} : w \in Procs}

C12_RoundRobinPairsEachOnce ==
    /\ calls # <<>> =>
          /\ 2 * Len(played) = nplayers * (nplayers + 1)
          /\ {played[k].key : k \in DOMAIN played} = PairKeys(nplayers)
          /\ \A a, b \in DOMAIN played :
                played[a].key = played[b].key => a = b
          /\ \A k \in DOMAIN played : played[k].key[1] <= played[k].key[2]
    /\ \A k \in DOMAIN outcome.payoff :
          /\ outcome.payoff[k].pairs = PairKeys(nplayers)
          /\ outcome.cooperation[k].pairs = PairKeys(nplayers)
    /\ \A o \in OutputsInFlight \ {STOP} :
          o.payoff.pairs = PairKeys(nplayers) /\ o.cooperation.pairs = PairKeys(nplayers)

\* a worker's round robin over two players: (0,0), (0,1), (1,1)
C12_Witness ==
    /\ nplayers = 2 /\ WorkerCalls # {} /\ calls[Len(calls)].by = "worker"
    /\ Len(played) = 3
    /\ played[1].key = <<0, 0>> /\ played[2].key = <<0, 1>> /\ played[3].key = <<1, 1>>

(* ---------------------------------------------------------------------- *)
(* C13: in every round robin the second participant of a self-play match   *)
(* (i, i) is an instance made by players[i].clone() for that match,        *)
(* different from players[i] and from every other clone of the run, so no  *)
(* match has one instance on both sides; for i < j the participants are    *)
(* players[i] and players[j] and no clone is made.                         *)
(* ---------------------------------------------------------------------- *)
C13_SelfPlayUsesFreshClone ==
    /\ \A k \in DOMAIN played :
          LET m == played[k]
              i == m.key[1]
              j == m.key[2]
          IN /\ m.player1 = Player(i)
             /\ m.player1 # m.player2
             /\ i = j => /\ m.player2.kind = "clone"
                         /\ m.player2.index = i
                         /\ \E c \in DOMAIN clones : clones[c] = m.player2
                         /\ \A h \in DOMAIN played :
                               played[h].player2 = m.player2 => h = k
             /\ i < j => m.player2 = Player(j)
    /\ \A a, b \in DOMAIN clones : clones[a] = clones[b] => a = b
    /\ \A c \in DOMAIN clones : \A i \in 0..(nplayers - 1) : clones[c] # Player(i)
    /\ Len(clones) = Len(calls) * nplayers

\* the second round robin of a run with two players: four clones so far
C13_Witness ==
    /\ nplayers = 2 /\ Len(calls) = 2 /\ Len(clones) = 4
    /\ played[1].player2.kind = "clone" /\ played[2].player2 = Player(1)
    /\ clones[1] # clones[3] /\ clones[1].index = clones[3].index

(* ---------------------------------------------------------------------- *)
(* C14: in every state of play() (serial repetitions, priming, draining    *)
(* of the done queue) the payoff and the cooperation collection have the   *)
(* same length and, at every index, entries of the same repetition.        *)
(* ---------------------------------------------------------------------- *)
C14_PayoffAndCooperationPaired ==
    /\ Len(outcome.payoff) = Len(outcome.cooperation)
    /\ \A k \in DOMAIN outcome.payoff :
          /\ k \in DOMAIN outcome.cooperation
          /\ outcome.payoff[k].id = outcome.cooperation[k].id
          /\ outcome.payoff[k].kind = "payoff"
          /\ outcome.cooperation[k].kind = "cooperation"

\* the priming outcome followed by a worker's outcome taken from the done queue
C14_Witness ==
    /\ pc = "drain" /\ Len(outcome.payoff) = 2
    /\ FromPrime(outcome.payoff[1]) /\ FromWorker(outcome.cooperation[2])

(* ---------------------------------------------------------------------- *)
(* C15: whatever order the workers' outputs arrive in, when                *)
(* _process_done_queue has returned the aggregate, seen as a multiset of   *)
(* (payoff matrix, cooperation matrix) pairs, is the priming pair (if any) *)
(* together with the pairs of the outputs of the dispatched repetitions.   *)
(* ---------------------------------------------------------------------- *)
PairsOf(out) == [k \in 1..Len(out.payoff) |-> <<out.payoff[k], out.cooperation[k]>>]
BagOfSeq(q) ==
    [x \in {q[k] : k \in DOMAIN q} |-> Cardinality({k \in DOMAIN q : q[k] = x})]
DispatchedPairs ==
    [k \in 1..parallel_repetitions |->
        LET o == PlayRoundRobin(nplayers, Snapshot(deterministic_cache), FALSE,
                                noise, RepId("worker", k - 1)).output
        IN <<o.payoff, o.cooperation>>]
PrimingPairs == SelectSeq(PairsOf(outcome), LAMBDA pr : FromPrime(pr[1]))

C15_AggregateIndependentOfArrivalOrder ==
    (Parallel /\ Returned) =>
        /\ BagOfSeq(PairsOf(outcome)) = BagOfSeq(PrimingPairs \o DispatchedPairs)
        /\ Len(PrimingPairs) = (IF build_required THEN 1 ELSE 0)

\* the output of repetition 1 arrived before the output of repetition 0
C15_Witness ==
    /\ Parallel /\ Returned /\ ~build_required /\ Len(outcome.payoff) = 2
    /\ outcome.payoff[1].id = RepId("worker", 1)
    /\ outcome.payoff[2].id = RepId("worker", 0)

(* ---------------------------------------------------------------------- *)
(* C16: with processes None, play() runs the R repetitions one after       *)
(* another in the controller and appends one outcome for each; it starts   *)
(* no worker, puts nothing on a queue, runs no priming step and leaves     *)
(* _parallel_repetitions unchanged, whatever the noise and prebuilt flag.  *)
(* ---------------------------------------------------------------------- *)
C16_SerialRunsAllInController ==
    ~Parallel =>
        /\ pc \in {"play", "serial", "result", "done"}
        /\ \A k \in DOMAIN calls : calls[k] = Call("controller", TRUE, RepId("serial", k - 1))
        /\ Len(calls) <= repetitions
        /\ pc = "serial" => Len(calls) = repetition
        /\ Returned => Len(calls) = repetitions
        /\ Len(outcome.payoff) = Len(calls) /\ Len(outcome.cooperation) = Len(calls)
        /\ \A k \in DOMAIN outcome.payoff : outcome.payoff[k].id = calls[k].id
        /\ \A w \in Procs : ~Started(w)
        /\ enqueued = <<>> /\ work_queue = <<>> /\ done_queue = <<>>
        /\ \A w \in Procs : done_buffer[w] = <<>>
        /\ received = [outputs |-> 0, stops |-> 0]
        /\ ~build_required
        /\ parallel_repetitions = repetitions

\* two serial repetitions at zero noise without the prebuilt flag, returned
C16_Witness ==
    /\ ~Parallel /\ pc = "done" /\ Len(outcome.payoff) = 2
    /\ noise = 0 /\ ~prebuilt_cache /\ initial_cache = EmptyCache
    /\ BuildCacheRequired(noise, initial_cache, prebuilt_cache)

(* ---------------------------------------------------------------------- *)
(* Tournaments as the constructor accepts them: __init__ stores            *)
(* repetitions and players unchecked, so a negative repetition count and   *)
(* an empty player list are constructed like any other.                    *)
(* ---------------------------------------------------------------------- *)
InitUnvalidated == InitFrom((-1)..MaxReps)

UnvalidatedSpec == InitUnvalidated /\ [][Next]_vars

(* ---------------------------------------------------------------------- *)
(* C17: a tournament with a negative repetition count or an empty player   *)
(* list fails before any scheduling: no round robin is run, nothing is     *)
(* put on the work queue, no worker is started and no result is returned.  *)
(* ---------------------------------------------------------------------- *)
InvalidConfiguration == repetitions < 0 \/ nplayers = 0

C17_InvalidConfigurationFailsFast ==
    InvalidConfiguration =>
        /\ calls = <<>>
        /\ enqueued = <<>>
        /\ \A w \in Procs : ~Started(w)
        /\ ~Returned

(* ---------------------------------------------------------------------- *)
(* C18: every work item is put on the work queue before every 'STOP';      *)
(* one 'STOP' is put for each started worker, W in total; a worker that    *)
(* dequeues a 'STOP' exits, dequeues nothing more and puts exactly one     *)
(* 'STOP' on the done queue as its last message.  Worker k is started      *)
(* when only k 'STOP's have been put.                                      *)
(* ---------------------------------------------------------------------- *)
Exited == {w \in Procs : wpc[w] = "exited"}
StopsInFlight == Cardinality({w \in Procs : StopsOf(done_buffer[w]) # <<>>})

C18_SentinelProtocol ==
    /\ [](/\ \A a, b \in DOMAIN enqueued :
                (a < b /\ enqueued[a] = STOP) => enqueued[b] = STOP
          /\ pc = "start_workers" =>
                /\ Len(StopsOf(enqueued)) = repetition
                /\ \A w \in Procs : Started(w) <=> w <= repetition
          /\ pc \in {"drain", "result", "done"} =>
                /\ Len(StopsOf(enqueued)) = workers
                /\ \A w \in Procs : Started(w) <=> w <= workers
          /\ Cardinality(Exited) = Len(StopsOf(enqueued)) - Len(StopsOf(work_queue))
          /\ \A w \in Procs :
                /\ Len(StopsOf(done_buffer[w])) <= 1
                /\ StopsOf(done_buffer[w]) # <<>> =>
                      /\ w \in Exited
                      /\ done_buffer[w][Len(done_buffer[w])] = STOP
          /\ Cardinality(Exited) = received.stops + StopsInFlight)
    /\ [][\A w \in Procs :
            /\ wpc[w] = "exited" =>
                  /\ wpc'[w] = "exited"
                  /\ \/ done_buffer'[w] = done_buffer[w]
                     \/ /\ done_buffer[w] # <<>>
                        /\ done_buffer'[w] = Tail(done_buffer[w])
            /\ (wpc[w] = "get" /\ wpc'[w] = "exited") =>
                  /\ work_queue # <<>> /\ Head(work_queue) = STOP
                  /\ work_queue' = Tail(work_queue)
                  /\ done_buffer'[w] = Append(done_buffer[w], STOP)
            /\ (Len(done_buffer'[w]) > Len(done_buffer[w])) =>
                  /\ wpc[w] = "get"
                  /\ work_queue' = Tail(work_queue)
       ]_vars

\* the first worker has taken its 'STOP' and exited before the second is started
C18_Witness ==
    /\ pc = "start_workers" /\ workers = 2 /\ repetition = 1
    /\ wpc[1] = "exited" /\ wpc[2] = "idle"
    /\ Len(StopsOf(enqueued)) = 1 /\ Len(WorkItemsOf(enqueued)) >= 1

(* ---------------------------------------------------------------------- *)
(* Worker failure: a started worker that is still in its loop terminates   *)
(* without putting 'STOP'.  It may die holding an item it has just taken   *)
(* from the work queue, and what it has put but its feeder has not yet     *)
(* written may or may not reach the done queue.  (A worker that hangs is   *)
(* one that takes no further step.)                                        *)
(* ---------------------------------------------------------------------- *)
WorkerCrash(w) ==
    /\ wpc[w] = "get"
    /\ wpc' = [wpc EXCEPT ![w] = "crashed"]
    /\ \E took \in BOOLEAN :
          IF took /\ work_queue # <<>>
          THEN /\ work_queue' = Tail(work_queue)
               /\ processed' = IF Head(work_queue) = STOP THEN processed
                               ELSE Append(processed, Head(work_queue))
          ELSE UNCHANGED <<work_queue, processed>>
    /\ \E lost \in BOOLEAN :
          done_buffer' = IF lost THEN [done_buffer EXCEPT ![w] = <<>>] ELSE done_buffer
    /\ UNCHANGED <<config, deterministic_cache, parallel_repetitions, outcome,
                   control, done_queue, wcache, rounds, enqueued, received>>

NextWithFailure == Next \/ \E w \in Procs : WorkerCrash(w)

FailureSpec == InitFair /\ [][NextWithFailure]_vars

(* ---------------------------------------------------------------------- *)
(* C19: once a started worker has terminated without putting its 'STOP',   *)
(* fewer than W 'STOP's ever reach the controller and                      *)
(* _process_done_queue never returns: play() yields no result.             *)
(* ---------------------------------------------------------------------- *)
Crashed == {w \in Procs : wpc[w] = "crashed"}

C19_FailedWorkerBlocksController ==
    /\ [](Crashed # {} =>
            /\ ~Returned
            /\ received.stops <= workers - Cardinality(Crashed)
            /\ pc = "drain" => stops < workers)
    /\ [][\A w \in Crashed : wpc'[w] = "crashed"]_vars

\* everything the other workers sent has been drained; the controller waits
\* for a 'STOP' that will not come
C19_Witness ==
    /\ Crashed # {} /\ pc = "drain" /\ workers = 2
    /\ stops = workers - 1
    /\ done_queue = <<>> /\ \A w \in Procs : done_buffer[w] = <<>>
    /\ \A w \in Procs : wpc[w] \in {"crashed", "exited"}
    /\ Len(outcome.payoff) >= 1

(* ---------------------------------------------------------------------- *)
(* C20: when _process_done_queue returns (W 'STOP's observed), the work    *)
(* queue and the done queue are empty, every worker has left its loop and  *)
(* every output a worker produced has been appended; once the W-th 'STOP'  *)
(* has reached the done queue nothing more arrives on it.                  *)
(* ---------------------------------------------------------------------- *)
AllStopsObserved == pc = "drain" /\ stops >= workers

C20_DrainedAtShutdown ==
    /\ []((Parallel /\ (Returned \/ AllStopsObserved)) =>
            /\ work_queue = <<>>
            /\ done_queue = <<>>
            /\ \A w \in Procs : done_buffer[w] = <<>>
            /\ \A w \in 1..workers : wpc[w] = "exited"
            /\ Len(SelectSeq(outcome.payoff, FromWorker)) = Cardinality(WorkerCalls)
            /\ received.outputs = Cardinality(WorkerCalls)
            /\ Len(processed) = Cardinality(WorkerCalls))
    /\ [][(Parallel /\ workers >= 1 /\ received.stops >= workers) =>
              /\ received' = received
              /\ \A w \in Procs : done_buffer[w] = <<>> /\ done_buffer'[w] = <<>>
         ]_vars

\* the last 'STOP' has just been taken: both workers ran a repetition and the
\* queues are empty although play() has not returned yet
C20_Witness ==
    /\ Parallel /\ AllStopsObserved /\ workers = 2
    /\ Cardinality(WorkerCalls) = 2 /\ Len(SelectSeq(outcome.payoff, FromWorker)) = 2
    /\ work_queue = <<>> /\ done_queue = <<>>
====
